---- MODULE Spec2Model ----
(***************************************************************************)
(* Model of StringHash.h: the run-time FNV-1a loop (GenerateFNV1aHash),    *)
(* the compile-time recursion (Hash<I>::GenerateHash), the dispatch by     *)
(* argument type (HashHelper / GenerateHash) and the StringHash wrapper.   *)
(*                                                                         *)
(* A uint32_t is kept as two 16-bit halves [hi, lo], because the values    *)
(* exceed the range of the model checker's integers; every operation       *)
(* reduces modulo 2^32 exactly as unsigned 32-bit arithmetic does.         *)
(***************************************************************************)
EXTENDS Integers, Sequences, FiniteSets, TLC

\* Longest text (characters before the terminator) the model enumerates.
MaxLen == 3

\* How many StringHash objects a behaviour constructs at most, and how many
\* times it calls Get.
NumObjs == 2
MaxGets == 2

\* How many callers run GenerateFNV1aHash concurrently.
NumCallers == 2

\* Longest text of the behaviours with several objects or several callers.
MaxShortLen == 2

\* The char values the inputs are drawn from: the terminator, 'a', 'b', 'c',
\* and 0x80, a value with the top bit set.
Chars == {0, 97, 98, 99, 128}

---------------------------------------------------------------------------
(* uint32_t arithmetic *)

Word(h, l) == [hi |-> h, lo |-> l]

\* A value below 2^31 as a uint32_t.
U32(n) == Word(n \div 65536, n % 65536)

\* Bitwise XOR of two non-negative integers.
RECURSIVE XorNat(_, _)
XorNat(a, b) ==
    IF a = 0 THEN b
    ELSE IF b = 0 THEN a
    ELSE ((a + b) % 2) + 2 * XorNat(a \div 2, b \div 2)

\* operator^ on uint32_t
Xor32(a, b) == Word(XorNat(a.hi, b.hi), XorNat(a.lo, b.lo))

\* The full 32-bit product of two 16-bit values, without leaving 31 bits.
Mul16(x, y) ==
    LET X == x * (y \div 256)
        Y == x * (y % 256)
        t == (X % 256) * 256 + Y
    IN  Word(X \div 256 + t \div 65536, t % 65536)

\* operator* on uint32_t: the product modulo 2^32
Mul32(a, b) ==
    LET p == Mul16(a.lo, b.lo)
    IN  Word((p.hi + Mul16(a.hi, b.lo).lo + Mul16(a.lo, b.hi).lo) % 65536, p.lo)

\* 16777619u = 0x01000193
FNV_PRIME == U32(16777619)

\* 2166136261u = 0x811C9DC5 (hi = 0x811C, lo = 0x9DC5)
FNV_OFFSET == Word(33052, 40389)

\* The seeds a caller passes as the third argument.
Seeds == {FNV_OFFSET, U32(0)}

\* The character arrays: up to MaxLen chars followed by the terminator.  A
\* char is kept as its bit pattern 0..255; the content may hold terminators.
TextsOver(S, max) ==
    UNION {{t \in [1..(n + 1) -> S \cup {0}] : t[n + 1] = 0 /\ \A i \in 1..n : t[i] \in S}
           : n \in 0..max}

Texts == TextsOver(Chars, MaxLen)

---------------------------------------------------------------------------
VARIABLES
    charSigned, \* whether plain char is a signed type in this build
    mem,        \* the character array the calls read (elements 1..N, N-1 chars + terminator)
    call,       \* the last completed call of a hashing entry point
    objs,       \* the StringHash objects
    got,        \* the last value StringHash::Get returned
    frame       \* the stack frame of each concurrent caller of GenerateFNV1aHash

vars == <<charSigned, mem, call, objs, got, frame>>

---------------------------------------------------------------------------
(* The hashing functions *)

\* static_cast<uint32_t>(c) for a char c: a negative char converts modulo
\* 2^32 (0xFFFFFF80..0xFFFFFFFF), which happens when char is signed.
CharToU32(c) ==
    IF charSigned /\ c >= 128 THEN Word(65535, 65280 + c) ELSE Word(0, c)

\* Mutant of NextChar: *str instead of *str++, the pointer never moves.
NextCharStuck(str) == str

\* str++ : the pointer moves to the next char.
NextChar(str) == str + 1

\* Mutant of LoopBody: hash = value instead of hash ^= value.
LoopBodyAssign(m, str, hash) == Mul32(CharToU32(m[str]), FNV_PRIME)

\* Mutant of LoopBody: FNV-1 order, the multiplication before the XOR.
LoopBodyMultiplyFirst(m, str, hash) == Xor32(Mul32(hash, FNV_PRIME), CharToU32(m[str]))

\* One iteration's body: value = *str; hash ^= value; hash *= 16777619u.
LoopBody(m, str, hash) == Mul32(Xor32(hash, CharToU32(m[str])), FNV_PRIME)

\* GenerateFNV1aHash(const char* str, size_t length, uint32_t hash): the for loop.
RECURSIVE ForLoop(_, _, _, _, _)
ForLoop(m, str, length, byte, hash) ==
    IF byte < length
    THEN ForLoop(m, NextChar(str), length, byte + 1, LoopBody(m, str, hash))
    ELSE hash

\* Mutant of GenerateFNV1aHash3: the seed argument is dropped.
GenerateFNV1aHash3Reseeded(m, str, length, hash) == ForLoop(m, str, length, 0, FNV_OFFSET)

GenerateFNV1aHash3(m, str, length, hash) == ForLoop(m, str, length, 0, hash)

\* Mutant of GenerateFNV1aHash2: the running hash starts at 0.
GenerateFNV1aHash2ZeroSeed(m, str, length) == GenerateFNV1aHash3(m, str, length, U32(0))

\* GenerateFNV1aHash(const char* str, size_t length)
GenerateFNV1aHash2(m, str, length) == GenerateFNV1aHash3(m, str, length, FNV_OFFSET)

\* strlen: the number of chars before the first terminator at or after str.
RECURSIVE strlen(_, _)
strlen(m, str) == IF m[str] = 0 THEN 0 ELSE 1 + strlen(m, str + 1)

\* GenerateFNV1aHash(const char* str)
GenerateFNV1aHash1(m, str) == GenerateFNV1aHash2(m, str, strlen(m, str))

\* Mutant of Hash: the multiplication before the XOR.
RECURSIVE HashMultiplyFirst(_, _)
HashMultiplyFirst(I, arr) ==
    IF I = 0
    THEN FNV_OFFSET
    ELSE Xor32(Mul32(HashMultiplyFirst(I - 1, arr), FNV_PRIME), CharToU32(arr[I]))

\* Hash<I>::GenerateHash(str), with Hash<0u> the end of the recursion.
\* str[I - 1] of the source is element I here (sequences start at 1).
RECURSIVE Hash(_, _)
Hash(I, arr) ==
    IF I = 0
    THEN FNV_OFFSET
    ELSE Mul32(Xor32(Hash(I - 1, arr), CharToU32(arr[I])), FNV_PRIME)

\* HashHelper<const char*>::Generate
HashHelperPtr(m, str) == GenerateFNV1aHash1(m, str)

\* HashHelper<char [N]>::Generate
HashHelperArray(arr) == Hash(Len(arr) - 1, arr)

\* GenerateHash(const T& str): T is deduced from the argument's type, char [N]
\* for an array (a literal), const char* for a pointer.
GenerateHash(T, m, str) ==
    IF T = "char[N]" THEN HashHelperArray(m) ELSE HashHelperPtr(m, str)

---------------------------------------------------------------------------
(* Calls of the hashing entry points on the array in memory *)

NoCall ==
    [op |-> "none", str |-> 0, length |-> 0, seed |-> FNV_OFFSET,
     ret |-> FNV_OFFSET, from |-> 0, fromSeed |-> FNV_OFFSET]

\* The record of a completed call: the arguments, the value returned, and the
\* start and seed of the chain of calls it continues (itself, when it starts one).
Called(op, p, n, s, r, f, fs) ==
    [op |-> op, str |-> p, length |-> n, seed |-> s, ret |-> r,
     from |-> f, fromSeed |-> fs]

N == Len(mem)

\* The calls are observed one at a time: a call starts when the value of the
\* one before has been dropped (or continues it, see CallChained).

Idle == UNCHANGED <<charSigned, mem, objs, got, frame>>

\* GenerateFNV1aHash(str, length, seed) on length chars of the array.
CallSeeded ==
    \E p \in 1..N, s \in Seeds :
        \E n \in 0..(N + 1 - p) :
            /\ call.op = "none"
            /\ call' = Called("GenerateFNV1aHash3", p, n, s,
                              GenerateFNV1aHash3(mem, p, n, s), p, s)
            /\ Idle

\* GenerateFNV1aHash(str, length, seed) continuing the previous call: it starts
\* where that call stopped and is seeded with the value that call returned.
CallChained ==
    /\ call.op = "GenerateFNV1aHash3"
    /\ \E n \in 0..(N + 1 - (call.str + call.length)) :
           call' = Called("GenerateFNV1aHash3", call.str + call.length, n, call.ret,
                          GenerateFNV1aHash3(mem, call.str + call.length, n, call.ret),
                          call.from, call.fromSeed)
    /\ Idle

\* GenerateFNV1aHash(str, length)
CallWithLength ==
    \E p \in 1..N :
        \E n \in 0..(N + 1 - p) :
            /\ call.op = "none"
            /\ call' = Called("GenerateFNV1aHash2", p, n, FNV_OFFSET,
                              GenerateFNV1aHash2(mem, p, n), p, FNV_OFFSET)
            /\ Idle

\* GenerateFNV1aHash(str)
CallString ==
    \E p \in 1..N :
        /\ call.op = "none"
        /\ call' = Called("GenerateFNV1aHash1", p, strlen(mem, p), FNV_OFFSET,
                          GenerateFNV1aHash1(mem, p), p, FNV_OFFSET)
        /\ Idle

\* Hash<I>::GenerateHash(array), for an I the array has the elements for.
CallStatic ==
    \E I \in 0..N :
        /\ call.op = "none"
        /\ call' = Called("Hash", 1, I, FNV_OFFSET, Hash(I, mem), 1, FNV_OFFSET)
        /\ Idle

\* GenerateHash(array): T = char [N]
CallGenerateHashArray ==
    /\ call.op = "none"
    /\ call' = Called("GenerateHash<char[N]>", 1, N - 1, FNV_OFFSET,
                      GenerateHash("char[N]", mem, 1), 1, FNV_OFFSET)
    /\ Idle

\* GenerateHash(pointer): T = const char*
CallGenerateHashPtr ==
    \E p \in 1..N :
        /\ call.op = "none"
        /\ call' = Called("GenerateHash<const char*>", p, strlen(mem, p), FNV_OFFSET,
                          GenerateHash("const char*", mem, p), p, FNV_OFFSET)
        /\ Idle

\* The caller drops the value it was returned; the next call can start.
Discard ==
    /\ call.op # "none"
    /\ call' = NoCall
    /\ Idle

NoObjs == <<>>
NoGet == [obj |-> 0, value |-> FNV_OFFSET, calls |-> 0]
NoFrames == <<>>

Init ==
    /\ charSigned \in BOOLEAN
    /\ mem \in Texts
    /\ call = NoCall
    /\ objs = NoObjs
    /\ got = NoGet
    /\ frame = NoFrames

Next ==
    \/ CallSeeded
    \/ CallChained
    \/ CallWithLength
    \/ CallString
    \/ CallStatic
    \/ CallGenerateHashArray
    \/ CallGenerateHashPtr
    \/ Discard

Spec == Init /\ [][Next]_vars

---------------------------------------------------------------------------
(* The StringHash wrapper *)

Objs == 1..NumObjs

\* Storage no StringHash has been constructed in.  T and str are history: the
\* argument the constructor was given (its deduced type, and the pointer).
NoObj == [built |-> FALSE, m_hash |-> FNV_OFFSET, T |-> "none", str |-> 0]

WrapperTexts == TextsOver({0, 97, 128}, MaxShortLen)

Resting == UNCHANGED <<charSigned, mem, call, frame>>

\* StringHash(const T& str) : m_hash(GenerateHash(str))
Construct(o, T, p) ==
    /\ ~objs[o].built
    /\ objs' = [objs EXCEPT ![o] =
                   [built |-> TRUE, m_hash |-> GenerateHash(T, mem, p), T |-> T, str |-> p]]
    /\ UNCHANGED got
    /\ Resting

ConstructFromArray == \E o \in Objs : Construct(o, "char[N]", 1)

ConstructFromPointer == \E o \in Objs : \E p \in 1..N : Construct(o, "const char*", p)

\* The implicitly declared copy constructor: the new object takes m_hash.
CopyConstruct ==
    \E o \in Objs, src \in Objs :
        /\ ~objs[o].built
        /\ objs[src].built
        /\ objs' = [objs EXCEPT ![o] = objs[src]]
        /\ UNCHANGED got
        /\ Resting

\* Mutant of Get: return m_hash++, the accessor changes the stored hash.
GetAndBump(o) ==
    /\ objs[o].built
    /\ got.calls < MaxGets
    /\ got' = [obj |-> o, value |-> objs[o].m_hash, calls |-> got.calls + 1]
    /\ objs' = [objs EXCEPT ![o].m_hash = Xor32(objs[o].m_hash, U32(1))]
    /\ Resting

\* uint32_t Get(void) { return m_hash; }
Get(o) ==
    /\ objs[o].built
    /\ got.calls < MaxGets
    /\ got' = [obj |-> o, value |-> objs[o].m_hash, calls |-> got.calls + 1]
    /\ UNCHANGED objs
    /\ Resting

CallGet == \E o \in Objs : Get(o)

InitWrapper ==
    /\ charSigned \in BOOLEAN
    /\ mem \in WrapperTexts
    /\ call = NoCall
    /\ objs = [o \in Objs |-> NoObj]
    /\ got = NoGet
    /\ frame = NoFrames

NextWrapper ==
    \/ ConstructFromArray
    \/ ConstructFromPointer
    \/ CopyConstruct
    \/ CallGet

SpecWrapper == InitWrapper /\ [][NextWrapper]_vars

---------------------------------------------------------------------------
(* Concurrent callers of GenerateFNV1aHash *)

Callers == 1..NumCallers

\* A caller's frame: where it is, its parameters str, length and hash, and its
\* loop counter byte.  arg is history: the pointer the call was given.
NoFrame == [pc |-> "idle", str |-> 0, length |-> 0, byte |-> 0, hash |-> FNV_OFFSET, arg |-> 0]

ConcTexts == TextsOver({97, 128}, MaxShortLen)

Apart == UNCHANGED <<charSigned, mem, call, objs, got>>

\* GenerateFNV1aHash(str, length): the caller enters the loop of the
\* three-argument overload with hash = 2166136261u.
Enter(t) ==
    \E p \in 1..N :
        \E n \in 0..(N - p) :
            /\ frame[t].pc = "idle"
            /\ frame' = [frame EXCEPT ![t] =
                            [pc |-> "loop", str |-> p, length |-> n, byte |-> 0,
                             hash |-> FNV_OFFSET, arg |-> p]]
            /\ Apart

\* Mutant of Iterate: str is one cursor shared by all callers (a static), read
\* and advanced through caller 1's frame.
IterateSharedCursor(t) ==
    /\ frame[t].pc = "loop"
    /\ frame[t].byte < frame[t].length
    /\ frame[1].str >= 1
    /\ frame[1].str <= N
    /\ frame' = [frame EXCEPT ![t].hash = LoopBody(mem, frame[1].str, frame[t].hash),
                              ![t].byte = frame[t].byte + 1,
                              ![1].str = NextChar(frame[1].str)]
    /\ Apart

\* One iteration: byte < length; value = *str++; hash ^= value; hash *= 16777619u; ++byte
Iterate(t) ==
    /\ frame[t].pc = "loop"
    /\ frame[t].byte < frame[t].length
    /\ frame' = [frame EXCEPT ![t].str = NextChar(frame[t].str),
                              ![t].hash = LoopBody(mem, frame[t].str, frame[t].hash),
                              ![t].byte = frame[t].byte + 1]
    /\ Apart

\* byte < length fails: return hash
Return(t) ==
    /\ frame[t].pc = "loop"
    /\ frame[t].byte >= frame[t].length
    /\ frame' = [frame EXCEPT ![t].pc = "done"]
    /\ Apart

InitThreads ==
    /\ charSigned \in BOOLEAN
    /\ mem \in ConcTexts
    /\ call = NoCall
    /\ objs = NoObjs
    /\ got = NoGet
    /\ frame = [t \in Callers |-> NoFrame]

NextThreads ==
    \E t \in Callers :
        \/ Enter(t)
        \/ Iterate(t)
        \/ Return(t)

SpecThreads == InitThreads /\ [][NextThreads]_vars

---------------------------------------------------------------------------
(* Claims about the hashing functions, checked under Spec *)

\* The chars a call read: elements p .. p+n-1 of the array m.
Bytes(m, p, n) == [i \in 1..n |-> m[p + i - 1]]

\* C1: the static path Hash<n> on the array of n+1 chars returns the value
\* the dynamic path GenerateFNV1aHash(S, n) returns on the same n chars with
\* the default seed, whichever of the two is called.
C1_StaticEqualsDynamic ==
    /\ (call.op = "Hash" /\ call.length = N - 1)
           => call.ret = GenerateFNV1aHash2(mem, 1, N - 1)
    /\ (call.op = "GenerateFNV1aHash2" /\ call.str = 1 /\ call.length = N - 1)
           => call.ret = Hash(N - 1, mem)

C1_Witness ==
    /\ call.op = "Hash"
    /\ N - 1 >= 3
    /\ call.length = N - 1
    /\ charSigned
    /\ \E i \in 1..(N - 1) : mem[i] >= 128
    /\ \E i \in 1..(N - 1) : mem[i] = 0

\* The fold as the claim C2 words it: h := seed, then for each byte in order
\* h := ((h XOR b) * 16777619) mod 2^32 with b the byte's value in 0..255.
RECURSIVE UnsignedFold(_, _)
UnsignedFold(bytes, h) ==
    IF bytes = <<>>
    THEN h
    ELSE UnsignedFold(Tail(bytes), Mul32(Xor32(h, Word(0, Head(bytes))), U32(16777619)))

\* C2: GenerateFNV1aHash(str, length, seed) equals the left-to-right fold over
\* the unsigned byte values, for every byte sequence, bytes >= 0x80 included.
C2_EqualsUnsignedFold ==
    call.op = "GenerateFNV1aHash3"
        => call.ret = UnsignedFold(Bytes(mem, call.str, call.length), call.seed)

\* The part of C2 the code keeps: the fold over unsigned values is what the
\* code computes when char is unsigned or no byte read has the top bit set.
C2_HoldsWithoutNegativeChars ==
    (/\ call.op = "GenerateFNV1aHash3"
     /\ (charSigned => \A i \in call.str..(call.str + call.length - 1) : mem[i] < 128))
        => call.ret = UnsignedFold(Bytes(mem, call.str, call.length), call.seed)

\* C3: GenerateHash returns the same value for the array itself and for a
\* const char* to the same characters.
C3_ArrayEqualsPointer ==
    /\ call.op = "GenerateHash<char[N]>"
           => call.ret = GenerateHash("const char*", mem, 1)
    /\ (call.op = "GenerateHash<const char*>" /\ call.str = 1)
           => call.ret = GenerateHash("char[N]", mem, 1)

\* The part of C3 the code keeps: the two shapes agree when the array's only
\* terminator is its last element.
C3_HoldsWithoutInnerTerminator ==
    (/\ call.op \in {"GenerateHash<char[N]>", "GenerateHash<const char*>"}
     /\ call.str = 1
     /\ \A i \in 1..(N - 1) : mem[i] # 0)
        => /\ call.ret = GenerateHash("const char*", mem, 1)
           /\ call.ret = GenerateHash("char[N]", mem, 1)

\* C5: a seed other than 2166136261 gives a value other than the one the
\* default-seeded call gives on the same input, the empty input included.
C5_SeedChangesHash ==
    (call.op = "GenerateFNV1aHash3" /\ call.seed # FNV_OFFSET)
        => call.ret # GenerateFNV1aHash2(mem, call.str, call.length)

C5_Witness ==
    /\ call.op = "GenerateFNV1aHash3"
    /\ call.seed = U32(0)
    /\ call.length >= 3
    /\ call.ret # U32(0)

\* C6: GenerateFNV1aHash("abc") is 440920331 (0x1A47E90B); the running hash
\* is 0xE40C292C after 'a' and 0x4D2505CA after 'b'.
C6_KnownVectorAbc ==
    (mem = <<97, 98, 99, 0>> /\ call.str = 1) =>
        /\ call.op = "GenerateFNV1aHash1" => call.ret = U32(440920331)
        /\ (call.op = "GenerateFNV1aHash2" /\ call.length = 1)
               => call.ret = Word(58380, 10540)
        /\ (call.op = "GenerateFNV1aHash2" /\ call.length = 2)
               => call.ret = U32(1294271946)
        /\ (call.op = "GenerateFNV1aHash2" /\ call.length = 3)
               => call.ret = U32(440920331)

C6_Witness ==
    /\ mem = <<97, 98, 99, 0>>
    /\ call.op = "GenerateFNV1aHash1"
    /\ call.str = 1
    /\ call.length = 3

\* C7: the hash of the empty text is the offset basis 2166136261:
\* GenerateFNV1aHash(""), GenerateFNV1aHash(str, 0) for any str, and Hash<0>
\* on the one-element array holding only the terminator.
C7_EmptyIsOffsetBasis ==
    /\ (call.op = "GenerateFNV1aHash1" /\ mem[call.str] = 0) => call.ret = FNV_OFFSET
    /\ (call.op = "GenerateFNV1aHash2" /\ call.length = 0) => call.ret = FNV_OFFSET
    /\ (call.op = "Hash" /\ call.length = 0) => call.ret = FNV_OFFSET
    /\ (call.op = "GenerateHash<char[N]>" /\ N = 1) => call.ret = FNV_OFFSET

C7_Witness ==
    \/ call.op = "Hash" /\ call.length = 0 /\ N = 1
    \/ call.op = "GenerateFNV1aHash1" /\ mem[call.str] = 0 /\ N = 1

\* C9: hashing B seeded with the hash of A (seed s) equals hashing A ++ B in
\* one call with seed s.
C9_ChainEqualsConcatenation ==
    call.op = "GenerateFNV1aHash3"
        => call.ret = GenerateFNV1aHash3(mem, call.from,
                                         call.str + call.length - call.from,
                                         call.fromSeed)

C9_Witness ==
    /\ call.op = "GenerateFNV1aHash3"
    /\ call.from < call.str
    /\ call.length > 0
    /\ mem[call.from] # mem[call.str]

\* The chars a char of the input is changed to: every char value when the
\* input is the one char of a one-char text, the enumerated ones otherwise.
OtherChars == IF call.length = 1 /\ N = 2 THEN 0..255 ELSE Chars

\* C10: two inputs of the same length that differ in exactly one position
\* have different hashes under the same seed.
C10_OneByteChangeNoCollision ==
    call.op = "GenerateFNV1aHash3" =>
        \A i \in call.str..(call.str + call.length - 1) :
            \A c \in OtherChars \ {mem[i]} :
                GenerateFNV1aHash3([mem EXCEPT ![i] = c], call.str, call.length, call.seed)
                    # call.ret

C10_Witness ==
    /\ call.op = "GenerateFNV1aHash3"
    /\ call.length >= 3
    /\ call.from = call.str

---------------------------------------------------------------------------
(* Claims about the wrapper, checked under SpecWrapper *)

\* What GenerateHash returns for the text object o was constructed from.
HashOfText(o) == GenerateHash(objs[o].T, mem, objs[o].str)

C4_StoredIsHashOfText ==
    /\ \A o \in Objs : objs[o].built => objs[o].m_hash = HashOfText(o)
    /\ got.calls > 0 => got.value = HashOfText(got.obj)

C4_NothingChangesStored ==
    \A o \in Objs : objs[o].built => objs'[o] = objs[o]

---------------------------------------------------------------------------
(* Claims about concurrent callers, checked under SpecThreads *)

\* A caller inside the loop holds the hash of the chars it has read so far; a
\* caller that returned holds what a call alone returns on its arguments.
C8_CallerHoldsSoloValue ==
    \A t \in Callers :
        /\ frame[t].pc = "loop" =>
               /\ frame[t].str = frame[t].arg + frame[t].byte
               /\ frame[t].hash = GenerateFNV1aHash2(mem, frame[t].arg, frame[t].byte)
        /\ frame[t].pc = "done" =>
               frame[t].hash = GenerateFNV1aHash2(mem, frame[t].arg, frame[t].length)

\* A step of one caller writes nothing but that caller's frame.
C8_WritesOwnFrameOnly ==
    /\ mem' = mem
    /\ \A t, u \in Callers :
           (frame'[t] # frame[t] /\ u # t) => frame'[u] = frame[u]

\* C8: callers of GenerateFNV1aHash whose loop steps interleave in any order
\* each obtain the value a solo call returns on their input, and the input is
\* unchanged: a call reads its input and writes only its own locals.
C8_ConcurrentCallersIndependent ==
    /\ []C8_CallerHoldsSoloValue
    /\ [][C8_WritesOwnFrameOnly]_vars

C8_Witness ==
    /\ \A t \in Callers : frame[t].pc = "done" /\ frame[t].length >= 1
    /\ frame[1].arg = 1
    /\ frame[1].length = 2
    /\ frame[2].arg = 2
    /\ mem[1] # mem[2]

====
